---------------------------- MODULE Spec2Model ----------------------------
(***************************************************************************)
(* Model of the mender-artifact parser (package parser): the outer archive *)
(* walk of Parser.Parse, the section parsers it dispatches to, the nested   *)
(* header archive parser HeaderTar.Parse and the ArtifactReader wrapper.    *)
(*                                                                         *)
(* The input stream is produced entry by entry: every tar Next() of the    *)
(* code draws the next entry (or end of archive, or a read error) from a   *)
(* small set, and the entries read so far are recorded, so that a property *)
(* of "every archive whose entries are ..." is a property of that record.  *)
(*                                                                         *)
(* To keep the input sets small the artifacts fall into families: in each  *)
(* one part of the artifact is drawn freely and the rest is that of the    *)
(* reference artifact (format mender, version 3, a two-line manifest, a    *)
(* header archive with one rootfs-image payload and no scripts).           *)
(*                                                                         *)
(* Bytes are strings; a byte sequence is a sequence of strings.  Entry     *)
(* names are paths, i.e. sequences of path components.  A nil pointer is   *)
(* the empty sequence and a non-nil pointer the one-element sequence       *)
(* holding the value pointed to.                                           *)
(***************************************************************************)
EXTENDS Integers, Sequences, FiniteSets, TLC

VARIABLES
    vary,       \* which part of the input is drawn freely (see Varies)
    pc,         \* position of the caller / of Parser.Parse
    outer,      \* names of the outer entries returned by tarElement.Next()
    outerEnd,   \* "open", or how the last outer Next() failed
    hdr,        \* hdr.Name of Parser.Parse
    dispatched, \* which section parser was handed which outer entry
    input,      \* raw bodies of the sections streamed so far
    parsed,     \* the values the section parsers wrote to (their receivers)
    artifact,   \* the local `artifact` of Parser.Parse (from New())
    p,          \* the Parser value of ArtifactReader.Parse
    a,          \* the ArtifactReader
    ret,        \* what ArtifactReader.Parse returned
    inner,      \* names of the entries of the nested header archive read so far
    ihdr,       \* hdr.Name of HeaderTar.Parse
    tee,        \* the digest tee of HeaderTar.Parse
    dataEntry,  \* body of the outer entry p.tarElement is positioned on
    rest,       \* names of the outer entries that follow that entry
    cursor,     \* how much of dataEntry has been read from p.tarElement
    handles,    \* the readers Parser.Next has returned
    nexts,      \* the outcomes of the calls of Parser.Next
    files,      \* the writes to the script files, in the order they were made
    codec,      \* a section value, a caller's buffer and the calls made on them
    lexer       \* the Lexer of lex, its goroutine and the consumer of its channel

parserVars == <<vary, pc, outer, outerEnd, hdr, dispatched, input, parsed, artifact,
                p, a, ret, inner, ihdr, tee, dataEntry, rest, cursor, handles, nexts,
                files>>

vars == <<parserVars, codec, lexer>>

----------------------------------------------------------------------------
(* Bounds *)

MaxCuts == 1        \* short reads per io.Copy of the version entry
MaxScripts == 1     \* script entries in a header archive
MaxSubHeaders == 2  \* type-info entries in a header archive
MaxDeclared == 2    \* payloads a header-info declares
MaxNext == 3        \* calls of Parser.Next
MaxContent == 2     \* content bytes of a payload

----------------------------------------------------------------------------
(* Generic helpers *)

Nil == <<>>
Ptr(x) == <<x>>
IsNil(ptr) == ptr = <<>>


\* path/filepath.Dir and Base on a path given as its components
Dir(path) == IF Len(path) <= 1 THEN <<".">> ELSE SubSeq(path, 1, Len(path) - 1)
Base(path) == IF path = <<>> THEN "." ELSE path[Len(path)]

\* crypto/sha256: an injective digest of the bytes written to the hash
Sha256(bytes) == <<"sha256">> \o bytes


----------------------------------------------------------------------------
(* Streams.  A stream is the chunks its Read calls deliver and the error   *)
(* the last Read ends with: "EOF" at the end of the entry, or a read       *)
(* error of the underlying source.                                         *)

RECURSIVE Flatten(_)
Flatten(chunks) ==
    IF chunks = <<>> THEN <<>> ELSE Head(chunks) \o Flatten(Tail(chunks))

\* the chunks of `bytes` when the reads stop short at the positions `cuts`
RECURSIVE ChunksFrom(_, _, _)
ChunksFrom(bytes, cuts, from) ==
    IF from > Len(bytes) THEN <<>>
    ELSE LET later == {c \in cuts : c >= from}
             to == IF later = {} THEN Len(bytes)
                   ELSE CHOOSE c \in later : \A d \in later : c <= d
         IN  <<SubSeq(bytes, from, to)>> \o ChunksFrom(bytes, cuts, to + 1)

CutSets(bytes) ==
    {cuts \in SUBSET (1 .. (Len(bytes) - 1)) : Cardinality(cuts) <= MaxCuts}

ReadErrors == {"EOF", "unexpected EOF"}

Streams(bytes) ==
    {[chunks |-> ChunksFrom(bytes, cuts, 1), end |-> e] :
        cuts \in CutSets(bytes), e \in ReadErrors}

\* a stream delivered by a single Read
Whole(bytes, e) == [chunks |-> IF bytes = <<>> THEN <<>> ELSE <<bytes>>, end |-> e]

\* ioutil.ReadAll
ReadAll(r) ==
    [data |-> Flatten(r.chunks), err |-> IF r.end = "EOF" THEN "nil" ELSE r.end]

----------------------------------------------------------------------------
(* Version *)

ZeroVersion == [Format |-> "", Version |-> 0, shaSum |-> Nil]

VersionBodies ==
    { <<"{", "format:mender", "version:3", "}">>,
      <<"{", "format:other", "version:3", "}">>,
      <<"{", "}", "{", "}">>,
      <<"{", "format:mender">>,
      <<>> }

\* encoding/json: one JSON object, its members between the braces
JsonValid(b) ==
    /\ Len(b) >= 2
    /\ b[1] = "{"
    /\ b[Len(b)] = "}"
    /\ \A i \in 2 .. (Len(b) - 1) : b[i] \notin {"{", "}"}

RECURSIVE UnmarshalVersion(_, _)
UnmarshalVersion(v, members) ==
    IF members = <<>> THEN v
    ELSE LET m == Head(members)
             w == CASE m = "format:mender" -> [v EXCEPT !.Format = "mender"]
                    [] m = "format:other" -> [v EXCEPT !.Format = "other"]
                    [] m = "version:3" -> [v EXCEPT !.Version = 3]
                    [] OTHER -> v
         IN  UnmarshalVersion(w, Tail(members))

\* func (v *Version) Write(b []byte)
VersionWrite(v, b) ==
    IF ~JsonValid(b) THEN [err |-> "json: syntax error", v |-> v]
    ELSE [err |-> "nil", v |-> UnmarshalVersion(v, SubSeq(b, 2, Len(b) - 1))]

\* a hash that forgets what it was given before
MultiWriterWriteLastOnly(v, sha, b) ==
    LET w == VersionWrite(v, b)
    IN  [err |-> w.err, v |-> w.v, sha |-> IF w.err = "nil" THEN b ELSE sha]

\* io.MultiWriter(v, sha).Write(b): each writer in turn, stopping at an error
MultiWriterWrite(v, sha, b) ==
    LET w == VersionWrite(v, b)
    IN  [err |-> w.err, v |-> w.v, sha |-> IF w.err = "nil" THEN sha \o b ELSE sha]

\* io.Copy(mw, r)
RECURSIVE CopyVersion(_, _, _, _)
CopyVersion(v, sha, chunks, end) ==
    IF chunks = <<>>
    THEN [err |-> IF end = "EOF" THEN "nil" ELSE end, v |-> v, sha |-> sha]
    ELSE LET w == MultiWriterWrite(v, sha, Head(chunks))
         IN  IF w.err # "nil" THEN w
             ELSE CopyVersion(w.v, w.sha, Tail(chunks), end)

\* func (v *Version) Parse(r io.Reader): `ptr` is the receiver; `obj` is the
\* Version the method wrote to, which is a local one when the receiver is nil
VersionParse(ptr, r) ==
    LET v == IF IsNil(ptr) THEN ZeroVersion ELSE ptr[1]
        c == CopyVersion(v, <<>>, r.chunks, r.end)
        obj == IF c.err = "nil" THEN [c.v EXCEPT !.shaSum = Sha256(c.sha)] ELSE c.v
    IN  [err |-> IF c.err = "nil" THEN "nil" ELSE "Failed to read version",
         obj |-> obj,
         ptr |-> IF IsNil(ptr) THEN Nil ELSE Ptr(obj)]

----------------------------------------------------------------------------
(* Manifest, ManifestSig, ManifestAugment.  The bytes of a manifest are    *)
(* tokens: a space, a newline, or a run of other characters (a word, or    *)
(* the hex form of a digest).  A string of the code is a sequence of       *)
(* tokens.                                                                 *)

SP == <<" ">>
NL == <<"\n">>
Word(w) == <<w>>
Hex(digest) == <<"hex">> \o digest

\* the pieces of `s` between the occurrences of `sep`; the last piece is `cur`
\* extended to the end of `s`
RECURSIVE SplitFrom(_, _, _)
SplitFrom(s, sep, cur) ==
    IF s = <<>> THEN <<cur>>
    ELSE IF Head(s) = sep THEN <<cur>> \o SplitFrom(Tail(s), sep, <<>>)
    ELSE SplitFrom(Tail(s), sep, Append(cur, Head(s)))

\* strings.Split(s, sep)
Split(s, sep) == SplitFrom(s, sep, <<>>)

\* bufio.Scanner with ScanLines: the lines of the text, a final line without
\* newline included, an empty final line not
ScanLines(text) ==
    LET pieces == Split(text, NL)
    IN  IF pieces[Len(pieces)] = <<>> THEN SubSeq(pieces, 1, Len(pieces) - 1)
        ELSE pieces

ZeroManifest == [Data |-> <<>>]
ZeroManifestSig == [sig |-> <<>>]
\* a ManifestAugment that starts from the entries of the Manifest
ZeroManifestAugmentShared ==
    [augData |-> IF IsNil(parsed.Manifest) THEN <<>> ELSE parsed.Manifest[1].Data]
ZeroManifestAugment == [augData |-> <<>>]

\* a scanner loop that stops after its first line
ManifestLinesFirstOnly(data, lines) ==
    IF lines = <<>> THEN [err |-> "nil", data |-> data]
    ELSE LET tmp == Split(Head(lines), SP)
         IN  IF Len(tmp) < 3 THEN [err |-> "panic", data |-> data]
             ELSE [err |-> "nil",
                   data |-> Append(data, [Signature |-> tmp[1], Name |-> tmp[3]])]

\* the scanner loop of Manifest.Parse; tmp[0] and tmp[2] of the code are
\* tmp[1] and tmp[3] here, and an index out of range panics
RECURSIVE ManifestLines(_, _)
ManifestLines(data, lines) ==
    IF lines = <<>> THEN [err |-> "nil", data |-> data]
    ELSE LET tmp == Split(Head(lines), SP)
         IN  IF Len(tmp) < 3 THEN [err |-> "panic", data |-> data]
             ELSE ManifestLines(
                      Append(data, [Signature |-> tmp[1], Name |-> tmp[3]]),
                      Tail(lines))

\* func (m *Manifest) Parse(r io.Reader): the scanner's own error is never
\* looked at, so a read error ends the loop like the end of the entry does
ManifestParse(ptr, r) ==
    LET m == IF IsNil(ptr) THEN ZeroManifest ELSE ptr[1]
        l == ManifestLines(m.Data, ScanLines(Flatten(r.chunks)))
        obj == [m EXCEPT !.Data = l.data]
    IN  [err |-> l.err, obj |-> obj, ptr |-> IF IsNil(ptr) THEN Nil ELSE Ptr(obj)]

\* func (m *ManifestSig) Parse(r io.Reader)
ManifestSigParse(ptr, r) ==
    LET m == IF IsNil(ptr) THEN ZeroManifestSig ELSE ptr[1]
        ra == ReadAll(r)
        obj == [m EXCEPT !.sig = ra.data]
    IN  [err |-> ra.err, obj |-> obj, ptr |-> IF IsNil(ptr) THEN Nil ELSE Ptr(obj)]

\* the scanner loop of ManifestAugment.Parse: tmp[0] and tmp[1] of the code
RECURSIVE ManifestAugmentLines(_, _)
ManifestAugmentLines(data, lines) ==
    IF lines = <<>> THEN [err |-> "nil", data |-> data]
    ELSE LET tmp == Split(Head(lines), SP)
         IN  IF Len(tmp) < 2 THEN [err |-> "panic", data |-> data]
             ELSE ManifestAugmentLines(
                      Append(data, [Signature |-> tmp[1], Name |-> tmp[2]]),
                      Tail(lines))

\* func (m *ManifestAugment) Parse(r io.Reader)
ManifestAugmentParse(ptr, r) ==
    LET m == IF IsNil(ptr) THEN ZeroManifestAugment ELSE ptr[1]
        l == ManifestAugmentLines(m.augData, ScanLines(Flatten(r.chunks)))
        obj == [m EXCEPT !.augData = l.data]
    IN  [err |-> l.err, obj |-> obj, ptr |-> IF IsNil(ptr) THEN Nil ELSE Ptr(obj)]

\* the text of a manifest line "<checksum><sep><path>\n"
Line(sum, sep, path) == <<sum>> \o sep \o <<Word(path), NL>>

\* the manifests offered after a version entry of bytes `vbytes`
ManifestBodies(vbytes) ==
    { Line(Hex(Sha256(vbytes)), <<SP, SP>>, "version")
          \o Line(Word("b7793eb1"), <<SP, SP>>, "header.tar.gz"),
      Line(Word("5ac39471"), <<SP, SP>>, "version")
          \o Line(Word("b7793eb1"), <<SP, SP>>, "header.tar.gz"),
      Line(Word("5ac39471"), <<SP>>, "version"),
      <<Word("5ac39471"), SP, SP, Word("version")>>,
      <<Word("5ac39471"), NL>>,
      <<Word("5ac39471"), SP, SP, NL>>,
      <<>> }

SigBodies == { <<"s1", "s2">> }

AugmentBodies ==
    { Line(Word("c57c4694"), <<SP>>, "header-augment.tar.gz"),
      <<Word("c57c4694"), NL>> }

----------------------------------------------------------------------------
(* The header archive: HeaderInfo, Scripts, TypeInfo, MetaData, SubHeader  *)

ZeroHeaderInfo == [Payloads |-> <<>>]
ZeroTypeInfo == [Type |-> ""]
ZeroMetaData == [data |-> <<>>]
ZeroSubHeader == [name |-> "", typeInfo |-> ZeroTypeInfo, metaData |-> ZeroMetaData]

ScriptDir == "/Users/olepor/go/src/github.com/olepor/ma-go/scripts"

\* a JSON document of the header archive: malformed, or an object with the
\* members the parsers look for
JsonDoc(ok, payloads, type) == [json |-> ok, payloads |-> payloads, type |-> type]
Opaque == JsonDoc(FALSE, <<>>, "")

RECURSIVE Payloads(_)
Payloads(k) == IF k = 0 THEN <<>> ELSE Append(Payloads(k - 1), [Type |-> "rootfs-image"])

\* func (h HeaderInfo) Write(b []byte): json.Unmarshal fills the method's own
\* copy of the receiver, which is dropped at the return
HeaderInfoWrite(h, b) ==
    LET copy == IF b.json THEN [h EXCEPT !.Payloads = b.payloads] ELSE h
    IN  [err |-> IF b.json THEN "nil" ELSE "json: syntax error", h |-> h]

\* func (t TypeInfo) Write(b []byte): as HeaderInfo.Write, a value receiver
TypeInfoWrite(t, b) ==
    LET copy == IF b.json THEN [t EXCEPT !.Type = b.type] ELSE t
    IN  [err |-> IF b.json THEN "nil" ELSE "TypeInfo: Write: Failed to unmarshal json",
         t |-> t]

\* func (t MetaData) Write(b []byte): the bytes go to ioutil.Discard
MetaDataWrite(m, b) == [err |-> "nil", m |-> m]

\* a Next that opens the script directory instead of the file in it
ScriptsNextOpensDir(s, filename, created) ==
    IF ~created THEN [err |-> "open: no such file or directory", s |-> s]
    ELSE [err |-> "nil",
          s |-> [s EXCEPT !.file = Ptr(s.scriptDir),
                          !.names = Append(@, <<s.scriptDir, filename>>)]]

\* func (s *Scripts) Next(filename string): os.Create succeeds or not
ScriptsNext(s, filename, created) ==
    IF ~created THEN [err |-> "open: no such file or directory", s |-> s]
    ELSE [err |-> "nil",
          s |-> [s EXCEPT !.file = Ptr(filename),
                          !.names = Append(@, <<s.scriptDir, filename>>)]]

\* func (s Scripts) Write(b []byte)
\* `file` is the file the bytes went to, nil when nothing was written
ScriptsWrite(s, b) ==
    IF IsNil(s.file)
    THEN [err |-> "Next must be called, prior to writing a script", s |-> s, file |-> Nil]
    ELSE [err |-> "nil", s |-> s, file |-> s.file]

----------------------------------------------------------------------------
(* Artifact, ArtifactReader, Parser *)

ZeroArtifact ==
    [Version |-> Nil, Manifest |-> Nil, ManifestSig |-> Nil,
     ManifestAugment |-> Nil, HeaderTar |-> Nil, HeaderAugment |-> Nil,
     HeaderSigned |-> Nil, Data |-> Nil]

\* func New() *Artifact
New ==
    [ZeroArtifact EXCEPT
        !.HeaderTar =
            Ptr([headerInfo |-> ZeroHeaderInfo,
                 scripts |-> Ptr([scriptDir |-> ScriptDir, file |-> Nil, names |-> <<>>]),
                 headers |-> <<>>,
                 shaSum |-> Nil])]

\* func NewArtifactReader() *ArtifactReader
NewArtifactReader == [p |-> Nil, Artifact |-> ZeroArtifact]

ZeroParser == [artifact |-> ZeroArtifact, tarElement |-> Nil]

\* a Parse that stores the parser and its Artifact whatever p.Parse returned
ArtifactReaderParseAlwaysStores(reader, parser, err) ==
    [a |-> [reader EXCEPT !.p = Ptr(parser), !.Artifact = parser.artifact],
     ret |-> IF err # "nil" THEN [ar |-> Nil, err |-> err]
             ELSE [ar |-> Ptr(parser.artifact), err |-> "nil"]]

\* the end of ArtifactReader.Parse, once p.Parse has returned `err`
ArtifactReaderParse(reader, parser, err) ==
    IF err # "nil"
    THEN [a |-> reader, ret |-> [ar |-> Nil, err |-> err]]
    ELSE [a |-> [reader EXCEPT !.p = Ptr(parser), !.Artifact = parser.artifact],
          ret |-> [ar |-> Ptr(parser.artifact), err |-> "nil"]]

----------------------------------------------------------------------------
(* Entry names *)

NVersion == <<"version">>
NManifest == <<"manifest">>
NManifestSig == <<"manifest.sig">>
NManifestAugment == <<"manifest-augment">>
NHeaderTar == <<"header.tar.gz">>
NHeaderAugment == <<"header-augment.tar.gz">>
NData0 == <<"data", "0000.tar.gz">>
NData1 == <<"data", "0001.tar.gz">>
NBogus == <<"bogus">>

OuterNames ==
    {NVersion, NManifest, NManifestSig, NManifestAugment, NHeaderTar,
     NHeaderAugment, NData0, NBogus}

IndexNames == <<"0000", "0001", "0002", "0003">>
NHeaderInfo == <<"header-info">>
ScriptNames ==
    <<"ArtifactInstall_Enter_00", "ArtifactInstall_Leave_00", "ArtifactCommit_Enter_00">>
NScript(i) == <<"scripts", ScriptNames[i]>>
NTypeInfo(i) == <<"headers", IndexNames[i], "type-info">>
NMetaData(i) == <<"headers", IndexNames[i], "meta-data">>

\* the conditions Parser.Parse and HeaderTar.Parse put on hdr.Name
IsVersionEntryOrManifest(name) == name \in {NVersion, NManifest}
IsVersionEntry(name) == name = NVersion
IsManifestEntry(name) == name = NManifest
IsManifestSigEntryOrAugment(name) == name \in {NManifestSig, NManifestAugment}
IsManifestSigEntry(name) == name = NManifestSig
IsManifestAugmentEntry(name) == name = NManifestAugment
IsHeaderTarEntry(name) == name = NHeaderTar
IsHeaderAugmentEntry(name) == name = NHeaderAugment
IsDataEntryOrBogus(name) == Dir(name) = <<"data">> \/ name = NBogus
IsDataEntry(name) == Dir(name) = <<"data">>
IsHeaderInfoEntry(name) == name = NHeaderInfo
IsFirstPayloadDir(name) == Dir(name) = <<"headers", "0000">>
IsScriptEntry(name) == Dir(name) = <<"scripts">>
IsFirstTypeInfoEntry(name) == name = NTypeInfo(1)
IsTypeInfoEntry(name) == Base(name) = "type-info"
IsMetaDataEntry(name) == Base(name) = "meta-data"

----------------------------------------------------------------------------
(* The state machine *)

\* "entries": the names and the order of the outer entries, and what a
\* header-augment.tar.gz holds; "sections": the bodies of version, manifest,
\* manifest.sig and manifest-augment; "header": the nested header archive;
\* "payloads": the data entries and how they are read
Varies == {"entries", "sections", "header", "payloads"}

\* no section value is being encoded or decoded on its own
CodecIdle ==
    [kind |-> "none", first |-> "none", step |-> 0, src |-> <<>>, obj |-> <<>>,
     buf |-> <<>>, n |-> 0, err |-> "nil"]

\* no Lexer has been made
LexerIdle ==
    [prog |-> <<>>, run |-> "none", user |-> "none", items |-> <<>>,
     pending |-> "none", emitted |-> <<>>, received |-> <<>>, closes |-> 0]

InitParser ==
    /\ pc = "idle"
    /\ outer = <<>>
    /\ outerEnd = "open"
    /\ hdr = Nil
    /\ dispatched = <<>>
    /\ input = [version |-> <<>>, manifest |-> <<>>, sig |-> <<>>, augment |-> <<>>,
                headerAugment |-> <<>>]
    /\ parsed = [Version |-> Nil, Manifest |-> Nil, ManifestSig |-> Nil,
                 ManifestAugment |-> Nil]
    /\ artifact = ZeroArtifact
    /\ p = ZeroParser
    /\ a = NewArtifactReader
    /\ ret = [ar |-> Nil, err |-> "none"]
    /\ inner = <<>>
    /\ ihdr = Nil
    /\ tee = [hashed |-> <<>>, raw |-> <<>>]
    /\ dataEntry = <<>>
    /\ rest = <<>>
    /\ cursor = 0
    /\ handles = <<>>
    /\ nexts = <<>>
    /\ files = <<>>

Init ==
    /\ vary \in Varies
    /\ codec = CodecIdle
    /\ lexer = LexerIdle
    /\ InitParser

\* tar.Reader.Next(): the next entry, the end of the archive, or an error;
\* once the source has failed it keeps failing
TarNext(end, names) ==
    IF end # "open" THEN {[err |-> end, name |-> Nil]}
    ELSE {[err |-> "nil", name |-> n] : n \in names}
            \cup {[err |-> e, name |-> Nil] : e \in ReadErrors}

\* the reference artifact
RefVersion == <<"{", "format:mender", "version:3", "}">>
RefManifest ==
    Line(Hex(Sha256(RefVersion)), <<SP, SP>>, "version")
        \o Line(Word("b7793eb1"), <<SP, SP>>, "header.tar.gz")
RefSig == <<"s1", "s2">>
RefAugment == Line(Word("c57c4694"), <<SP>>, "header-augment.tar.gz")
RefNames ==
    IF vary = "sections"
    THEN <<NVersion, NManifest, NManifestSig, NManifestAugment, NHeaderTar, NData0>>
    ELSE <<NVersion, NManifest, NHeaderTar, NData0>>

\* what the next Next() on the outer archive returns
RefNext ==
    IF vary = "payloads" /\ RefNames[Len(outer) + 1] = NData0 THEN {NData0, NData1}
    ELSE {RefNames[Len(outer) + 1]}

\* the archive may end after the header section
RefEnd ==
    IF outerEnd # "open" THEN {}
    ELSE IF vary = "header" /\ RefNames[Len(outer) + 1] = NData0 THEN {"unexpected EOF"}
    ELSE ReadErrors

OuterDraw ==
    IF vary = "entries" THEN TarNext(outerEnd, OuterNames)
    ELSE TarNext(outerEnd, RefNext) \ {[err |-> e, name |-> Nil] : e \in RefEnd}

VersionDraw == IF vary = "sections" THEN VersionBodies ELSE {RefVersion}
VersionStreams(body) == IF vary = "sections" THEN Streams(body) ELSE {Whole(body, "EOF")}
ManifestDraw == IF vary = "sections" THEN ManifestBodies(input.version) ELSE {RefManifest}
SigDraw == IF vary = "sections" THEN SigBodies ELSE {RefSig}
AugmentDraw == IF vary = "sections" THEN AugmentBodies ELSE {RefAugment}
EndDraw == IF vary = "sections" THEN ReadErrors ELSE {"EOF"}

\* a Next() that starts over at the entry it returns
OuterNextRewound(nx, bodyEnd) ==
    /\ outer' = IF nx.err = "nil" THEN <<nx.name>> ELSE outer
    /\ outerEnd' = IF nx.err # "nil" THEN nx.err
                   ELSE IF bodyEnd # "EOF" THEN bodyEnd ELSE outerEnd
    /\ hdr' = nx.name

\* hdr, err = tarElement.Next() on the outer archive
OuterNext(nx, bodyEnd) ==
    /\ outer' = IF nx.err = "nil" THEN Append(outer, nx.name) ELSE outer
    /\ outerEnd' = IF nx.err # "nil" THEN nx.err
                   ELSE IF bodyEnd # "EOF" THEN bodyEnd ELSE outerEnd
    /\ hdr' = nx.name

Goto(next) == pc' = next /\ UNCHANGED <<a, ret>>

\* Parser.Parse returns `err` to ArtifactReader.Parse, which returns
Return(err) ==
    LET r == ArtifactReaderParse(a, p, err)
    IN  /\ pc' = IF err = "nil" THEN "parsed" ELSE "failed"
        /\ a' = r.a
        /\ ret' = r.ret

\* the end of the archive taken for no error
OutcomeButEOF(err, next) ==
    IF err \in {"nil", "EOF"} THEN Goto(next)
    ELSE IF err = "panic" THEN Goto("panicked")
    ELSE Return(err)

Outcome(err, next) ==
    IF err = "nil" THEN Goto(next)
    ELSE IF err = "panic" THEN Goto("panicked")
    ELSE Return(err)

\* ArtifactReader.Parse up to the first Next() of Parser.Parse
CallParse ==
    /\ pc = "idle"
    /\ pc' = "expectVersion"
    /\ artifact' = New
    /\ p' = [ZeroParser EXCEPT !.tarElement = Ptr("tar.Reader")]
    /\ UNCHANGED <<lexer, codec, files, vary, dataEntry, rest, cursor, handles, nexts, outer, outerEnd, hdr, dispatched, input, parsed, a, ret,
                   inner, ihdr, tee>>

\* Expect `version`
ExpectVersion ==
    /\ pc = "expectVersion"
    /\ \E nx \in OuterDraw, body \in VersionDraw :
         \E r \in VersionStreams(body) :
            LET ran == nx.err = "nil" /\ IsVersionEntry(nx.name)
                vp == VersionParse(artifact.Version, r)
                err == IF nx.err # "nil" THEN nx.err
                       ELSE IF ~ran THEN "Expected version"
                       ELSE IF vp.err # "nil" THEN "Failed to parse the Version header"
                       ELSE "nil"
            IN  /\ OuterNext(nx, IF ran THEN r.end ELSE "EOF")
                /\ dispatched' = IF ran THEN Append(dispatched, [at |-> Len(outer) + 1, name |-> nx.name, to |-> "Version"])
                                 ELSE dispatched
                /\ input' = IF ran THEN [input EXCEPT !.version = body] ELSE input
                /\ parsed' = IF ran THEN [parsed EXCEPT !.Version = Ptr(vp.obj)] ELSE parsed
                /\ artifact' = IF ran THEN [artifact EXCEPT !.Version = vp.ptr] ELSE artifact
                /\ Outcome(err, "expectManifest")
    /\ UNCHANGED <<lexer, codec, files, vary, dataEntry, rest, cursor, handles, nexts, p, inner, ihdr, tee>>

\* Expect `manifest`
ExpectManifest ==
    /\ pc = "expectManifest"
    /\ \E nx \in OuterDraw,
          body \in ManifestDraw, e \in EndDraw :
            LET ran == nx.err = "nil" /\ IsManifestEntry(nx.name)
                mp == ManifestParse(artifact.Manifest, Whole(body, e))
                err == IF nx.err # "nil" THEN nx.err
                       ELSE IF ~ran THEN "Expected manifest"
                       ELSE mp.err
            IN  /\ OuterNext(nx, IF ran THEN e ELSE "EOF")
                /\ dispatched' = IF ran THEN Append(dispatched, [at |-> Len(outer) + 1, name |-> nx.name, to |-> "Manifest"])
                                 ELSE dispatched
                /\ input' = IF ran THEN [input EXCEPT !.manifest = body] ELSE input
                /\ parsed' = IF ran THEN [parsed EXCEPT !.Manifest = Ptr(mp.obj)] ELSE parsed
                /\ artifact' = IF ran THEN [artifact EXCEPT !.Manifest = mp.ptr] ELSE artifact
                /\ Outcome(err, "optManifestSig")
    /\ UNCHANGED <<lexer, codec, files, vary, dataEntry, rest, cursor, handles, nexts, p, inner, ihdr, tee>>

\* Optional expect `manifest.sig`
OptManifestSig ==
    /\ pc = "optManifestSig"
    /\ \E nx \in OuterDraw, body \in SigDraw, e \in EndDraw :
            LET ran == nx.err = "nil" /\ IsManifestSigEntry(nx.name)
                sp == ManifestSigParse(artifact.ManifestSig, Whole(body, e))
                err == IF nx.err # "nil" THEN nx.err
                       ELSE IF ran /\ sp.err # "nil"
                            THEN "Failed to parse the Manifest signature"
                       ELSE "nil"
            IN  /\ OuterNext(nx, IF ran THEN e ELSE "EOF")
                /\ dispatched' = IF ran THEN Append(dispatched, [at |-> Len(outer) + 1, name |-> nx.name, to |-> "ManifestSig"])
                                 ELSE dispatched
                /\ input' = IF ran THEN [input EXCEPT !.sig = body] ELSE input
                /\ parsed' = IF ran THEN [parsed EXCEPT !.ManifestSig = Ptr(sp.obj)] ELSE parsed
                /\ artifact' = IF ran THEN [artifact EXCEPT !.ManifestSig = sp.ptr] ELSE artifact
                /\ Outcome(err, IF ran THEN "optManifestAugment" ELSE "expectHeader")
    /\ UNCHANGED <<lexer, codec, files, vary, dataEntry, rest, cursor, handles, nexts, p, inner, ihdr, tee>>

\* Optional expect `manifest-augment`, inside the manifest.sig branch
OptManifestAugment ==
    /\ pc = "optManifestAugment"
    /\ \E nx \in OuterDraw, body \in AugmentDraw, e \in EndDraw :
            LET ran == nx.err = "nil" /\ IsManifestAugmentEntry(nx.name)
                mp == ManifestAugmentParse(artifact.ManifestAugment, Whole(body, e))
                err == IF nx.err # "nil" THEN nx.err
                       ELSE IF ran THEN mp.err
                       ELSE "nil"
            IN  /\ OuterNext(nx, IF ran THEN e ELSE "EOF")
                /\ dispatched' = IF ran THEN Append(dispatched, [at |-> Len(outer) + 1, name |-> nx.name, to |-> "ManifestAugment"])
                                 ELSE dispatched
                /\ input' = IF ran THEN [input EXCEPT !.augment = body] ELSE input
                /\ parsed' = IF ran THEN [parsed EXCEPT !.ManifestAugment = Ptr(mp.obj)] ELSE parsed
                /\ artifact' = IF ran THEN [artifact EXCEPT !.ManifestAugment = mp.ptr] ELSE artifact
                /\ Outcome(err, "afterManifestAugment")
    /\ UNCHANGED <<lexer, codec, files, vary, dataEntry, rest, cursor, handles, nexts, p, inner, ihdr, tee>>

\* the Next() that ends the manifest.sig branch, whether or not a
\* manifest-augment was parsed
AfterManifestAugment ==
    /\ pc = "afterManifestAugment"
    /\ \E nx \in OuterDraw :
            /\ OuterNext(nx, "EOF")
            /\ Outcome(nx.err, "expectHeader")
    /\ UNCHANGED <<lexer, codec, files, vary, dataEntry, rest, cursor, handles, nexts, dispatched, input, parsed, artifact, p, inner, ihdr, tee>>

----------------------------------------------------------------------------
(* HeaderTar.Parse, one action per stretch of code between two loop heads *)

TypeInfoBodies ==
    {JsonDoc(TRUE, <<>>, "rootfs-image"), JsonDoc(TRUE, <<>>, ""), Opaque}

HeaderInfoBodies ==
    {JsonDoc(TRUE, Payloads(k), "") : k \in 0 .. MaxDeclared} \cup {Opaque}

ScriptCount(seq) == Cardinality({i \in 1 .. Len(seq) : IsScriptEntry(seq[i].name)})
TypeInfoCount(seq) == Cardinality({i \in 1 .. Len(seq) : IsTypeInfoEntry(seq[i].name)})

\* the entries the nested archive may hold next.  A name no condition of the
\* code looks for stands for every other such name; the scripts come in the
\* order of ScriptNames; after the first type-info the payload directories
\* are numbered in order, and a meta-data is in the directory of the
\* type-info before it
InnerEntries(read) ==
    LET scripts == ScriptCount(read)
        infos == TypeInfoCount(read)
    IN  {[name |-> NBogus, body |-> Opaque]}
            \cup {[name |-> NMetaData(IF infos = 0 THEN 1 ELSE infos), body |-> Opaque]}
            \cup (IF read = <<>>
                  THEN {[name |-> NHeaderInfo, body |-> b] : b \in HeaderInfoBodies}
                  ELSE {})
            \cup (IF scripts < MaxScripts
                  THEN {[name |-> NScript(scripts + 1), body |-> Opaque]}
                  ELSE {})
            \cup (IF infos < MaxSubHeaders
                  THEN {[name |-> NTypeInfo(i), body |-> b] :
                            i \in (IF infos = 0 THEN 1 .. 2 ELSE {infos + 1}),
                            b \in TypeInfoBodies}
                  ELSE {})

\* tar.Reader.Next() on the nested archive
InnerNext(read) ==
    {[err |-> "nil", name |-> e.name, body |-> e.body] : e \in InnerEntries(read)}
        \cup {[err |-> e, name |-> Nil, body |-> Opaque] : e \in ReadErrors}

\* a Next() that returns an entry without moving past it
ReadInPlace(read, nx) == read

\* the entries of the nested archive read so far, after this Next()
Read(read, nx) ==
    IF nx.err = "nil" THEN Append(read, [name |-> nx.name, body |-> nx.body]) ELSE read

\* io.TeeReader(r, sha) under gzip.NewReader and tar.NewReader: the hash gets
\* the raw bytes the gzip reader has pulled.  Reaching the end of the nested
\* archive pulls the bytes up to its end marker; the gzip trailer behind it
\* has been pulled too (`trailer`) or is left unread in the entry
Pull(t, nx, trailer) ==
    IF nx.err = "nil"
    THEN [hashed |-> Append(t.hashed, Base(nx.name)), raw |-> Append(t.raw, Base(nx.name))]
    ELSE IF nx.err = "EOF"
    THEN [hashed |-> t.hashed \o <<"end-of-archive">>
                        \o (IF trailer THEN <<"gzip-trailer">> ELSE <<>>),
          raw |-> t.raw \o <<"end-of-archive", "gzip-trailer">>]
    ELSE t

HeaderTarOf(art) == art.HeaderTar[1]

\* the header archive of the reference artifact
RefInner ==
    <<[err |-> "nil", name |-> NHeaderInfo, body |-> JsonDoc(TRUE, Payloads(1), "")],
      [err |-> "nil", name |-> NTypeInfo(1), body |-> JsonDoc(TRUE, <<>>, "rootfs-image")],
      [err |-> "EOF", name |-> Nil, body |-> Opaque]>>

\* what the next Next() on the nested archive returns
InnerDraw(read) == IF vary = "header" THEN InnerNext(read) ELSE {RefInner[Len(read) + 1]}

\* what the environment decides: whether the entry is a gzip stream, whether
\* os.Create succeeds, whether the gzip trailer was pulled
EnvDraw == IF vary = "header" THEN BOOLEAN ELSE {TRUE}
TrailerDraw(nx) == IF nx.err = "EOF" THEN EnvDraw ELSE {TRUE}

\* Expect `header.tar.gz`; HeaderTar.Parse up to the scripts loop
ExpectHeader ==
    /\ pc = "expectHeader"
    /\ \E gz \in EnvDraw, nx \in InnerDraw(<<>>) :
         \E trailer \in TrailerDraw(nx) :
            LET h == HeaderTarOf(artifact)
                ran == IsHeaderTarEntry(hdr)
                opened == ran /\ gz
                hw == HeaderInfoWrite(h.headerInfo, nx.body)
                err == IF ~ran THEN "Expected header.tar.gz"
                       ELSE IF ~gz THEN "gzip: invalid header"
                       ELSE IF nx.err # "nil" THEN nx.err
                       ELSE IF ~IsHeaderInfoEntry(nx.name) THEN "Unexpected header"
                       ELSE hw.err
            IN  /\ dispatched' = IF ran THEN Append(dispatched, [at |-> Len(outer), name |-> hdr, to |-> "HeaderTar"])
                                 ELSE dispatched
                /\ inner' = IF opened THEN Read(<<>>, nx) ELSE inner
                /\ ihdr' = IF opened THEN nx.name ELSE ihdr
                /\ tee' = IF opened
                          THEN Pull([hashed |-> <<"gzip-header">>, raw |-> <<"gzip-header">>],
                                    nx, trailer)
                          ELSE tee
                /\ artifact' = IF opened /\ nx.err = "nil" /\ IsHeaderInfoEntry(nx.name)
                               THEN [artifact EXCEPT !.HeaderTar = Ptr([h EXCEPT !.headerInfo = hw.h])]
                               ELSE artifact
                /\ Outcome(err, "scripts")
    /\ UNCHANGED <<lexer, codec, files, vary, dataEntry, rest, cursor, handles, nexts, outer, outerEnd, hdr, input, parsed, p>>

\* Read all the scripts: one turn of the loop
ScriptsLoop ==
    /\ pc = "scripts"
    /\ \E nx \in InnerDraw(inner), created \in EnvDraw :
         \E trailer \in TrailerDraw(nx) :
            LET h == HeaderTarOf(artifact)
                found == nx.err = "nil" /\ IsFirstPayloadDir(nx.name)
                script == nx.err = "nil" /\ ~found /\ IsScriptEntry(nx.name)
                sn == ScriptsNext(h.scripts[1], Base(nx.name), created)
                sw == ScriptsWrite(sn.s, nx.body)
                err == IF nx.err # "nil" THEN nx.err
                       ELSE IF found THEN "nil"
                       ELSE IF ~script THEN "Expected scripts"
                       ELSE IF sn.err # "nil" THEN sn.err
                       ELSE sw.err
            IN  /\ inner' = Read(inner, nx)
                /\ ihdr' = nx.name
                /\ tee' = Pull(tee, nx, trailer)
                /\ artifact' = IF script
                               THEN [artifact EXCEPT !.HeaderTar = Ptr([h EXCEPT !.scripts = Ptr(sn.s)])]
                               ELSE artifact
                /\ files' = IF script /\ sn.err = "nil" /\ sw.err = "nil"
                            THEN Append(files, [file |-> sw.file[1],
                                                bytes |-> nx.body,
                                                entry |-> Len(inner) + 1])
                            ELSE files
                /\ Outcome(err, IF found THEN "subHeaders" ELSE "scripts")
    /\ UNCHANGED <<lexer, codec, vary, dataEntry, rest, cursor, handles, nexts, outer, outerEnd, hdr, dispatched, input, parsed, p>>

\* Read all the headers: one turn of the loop, from the check of the name
\* to the next loop head or to the return of HeaderTar.Parse
SubHeadersLoop ==
    /\ pc = "subHeaders"
    /\ \E n1 \in InnerDraw(inner) :
         \E n2 \in (IF n1.err = "nil" /\ IsMetaDataEntry(n1.name)
                    THEN InnerDraw(Read(inner, n1)) ELSE {n1}) :
          \E trailer \in TrailerDraw(n2) :
            LET h == HeaderTarOf(artifact)
                named == IsTypeInfoEntry(ihdr)
                sh == ZeroSubHeader
                tw == TypeInfoWrite(sh.typeInfo, inner[Len(inner)].body)
                copied == named /\ tw.err = "nil"
                meta == copied /\ n1.err = "nil" /\ IsMetaDataEntry(n1.name)
                mw == MetaDataWrite(sh.metaData, n1.body)
                sh2 == [sh EXCEPT !.typeInfo = tw.t,
                                  !.metaData = IF meta THEN mw.m ELSE @]
                last == IF meta THEN n2 ELSE n1
                t1 == Pull(tee, n1, trailer)
                t2 == IF meta THEN Pull(t1, n2, trailer) ELSE t1
                err == IF ~named THEN "Expected type-info"
                       ELSE IF tw.err # "nil" THEN "HeaderTar"
                       ELSE IF last.err = "EOF" THEN "nil"
                       ELSE IF last.err # "nil" THEN "HeaderTar: failed to get next header"
                       ELSE "nil"
                \* the sub-header is appended at the loop's end and on the
                \* EOF return after type-info, not on the break after meta-data
                appended == copied /\ ~(meta /\ n2.err # "nil") /\ ~(~meta /\ n1.err \notin {"nil", "EOF"})
                \* the digest is read after the break, not on the EOF return
                summed == meta /\ n2.err = "EOF"
                h2 == [h EXCEPT !.headers = IF appended THEN Append(@, sh2) ELSE @,
                                !.shaSum = IF summed THEN Sha256(t2.hashed) ELSE @]
            IN  /\ inner' = IF ~copied THEN inner
                            ELSE IF meta THEN Read(Read(inner, n1), n2)
                            ELSE Read(inner, n1)
                /\ ihdr' = IF copied THEN last.name ELSE ihdr
                /\ tee' = IF copied THEN t2 ELSE tee
                /\ artifact' = [artifact EXCEPT !.HeaderTar = Ptr(h2)]
                /\ Outcome(err, IF copied /\ last.err = "EOF" THEN "optHeaderAugment"
                                ELSE "subHeaders")
    /\ UNCHANGED <<lexer, codec, files, vary, dataEntry, rest, cursor, handles, nexts, outer, outerEnd, hdr, dispatched, input, parsed, p>>

----------------------------------------------------------------------------
(* The rest of Parser.Parse *)

\* what a header-augment.tar.gz entry holds: a gzip stream or not, and the
\* name of the first entry of the archive in it (Nil: none)
HeaderAugmentChunks ==
    {[gzip |-> FALSE, first |-> Nil, info |-> Opaque],
     [gzip |-> TRUE, first |-> Nil, info |-> Opaque],
     [gzip |-> TRUE, first |-> NBogus, info |-> Opaque],
     [gzip |-> TRUE, first |-> NHeaderInfo, info |-> JsonDoc(TRUE, Payloads(1), "")]}

HeaderAugmentStreams ==
    {[chunks |-> <<>>, end |-> "EOF"]}
        \cup {[chunks |-> <<b>>, end |-> "EOF"] : b \in HeaderAugmentChunks}

\* func (h *HeaderAugment) Write(b []byte): with a nil receiver h.headerInfo
\* is a nil dereference; otherwise the headers loop starts with hdr still
\* naming header-info
HeaderAugmentWrite(ptr, b) ==
    IF ~b.gzip THEN "gzip: invalid header"
    ELSE IF b.first = Nil THEN "EOF"
    ELSE IF ~IsHeaderInfoEntry(b.first) THEN "Unexpected header"
    ELSE IF IsNil(ptr) THEN "panic"
    ELSE IF HeaderInfoWrite(ptr[1].headerInfo, b.info).err # "nil" THEN "short write"
    ELSE "Expected type-info"

HeaderAugmentDraw ==
    IF vary = "entries" THEN HeaderAugmentStreams ELSE {[chunks |-> <<>>, end |-> "EOF"]}

\* io.Copy(artifact.HeaderAugment, tarElement): no Write for an empty entry
CopyHeaderAugment(ptr, r) ==
    IF r.chunks = <<>> THEN "nil" ELSE HeaderAugmentWrite(ptr, Head(r.chunks))

\* Optional `header-augment.tar.gz`
OptHeaderAugment ==
    /\ pc = "optHeaderAugment"
    /\ \E nx \in OuterDraw, r \in HeaderAugmentDraw :
            LET ran == nx.err = "nil" /\ IsHeaderAugmentEntry(nx.name)
                err == IF nx.err # "nil" THEN nx.err
                       ELSE IF ran THEN CopyHeaderAugment(artifact.HeaderAugment, r)
                       ELSE "nil"
            IN  /\ OuterNext(nx, "EOF")
                /\ dispatched' = IF ran THEN Append(dispatched, [at |-> Len(outer) + 1, name |-> nx.name, to |-> "HeaderAugment"])
                                 ELSE dispatched
                /\ input' = IF ran THEN [input EXCEPT !.headerAugment = r.chunks] ELSE input
                /\ Outcome(err, IF ran THEN "afterHeaderAugment" ELSE "expectData")
    /\ UNCHANGED <<lexer, codec, files, vary, dataEntry, rest, cursor, handles, nexts, parsed, artifact, p, inner, ihdr, tee>>

\* the Next() that ends the header-augment branch
AfterHeaderAugment ==
    /\ pc = "afterHeaderAugment"
    /\ \E nx \in OuterDraw :
            /\ OuterNext(nx, "EOF")
            /\ Outcome(nx.err, "expectData")
    /\ UNCHANGED <<lexer, codec, files, vary, dataEntry, rest, cursor, handles, nexts, dispatched, input, parsed, artifact, p, inner, ihdr, tee>>

\* the compressed bytes of a data entry, in pieces: the gzip header, the tar
\* header of a file of n bytes, a content byte, and the end of the tar
\* archive with the gzip trailer
GZ == <<"gzip-header">>
TH(n) == <<"tar-header">> \o [i \in 1 .. n |-> "."]
CB(x) == <<"content", x>>
TR == <<"gzip-trailer">>
IsTH(t) == t[1] = "tar-header"
Size(t) == Len(t) - 1
IsCB(t) == t[1] = "content"

Content == <<"a", "b", "c">>
PayloadOf(n) == [i \in 1 .. n |-> CB(Content[i])]
RefData == <<GZ, TH(MaxContent)>> \o PayloadOf(MaxContent) \o <<TR>>

\* a well-formed entry, an empty one, one that is no gzip stream, an empty
\* tar archive, a truncated entry, and two gzip members one after the other
DataBodies ==
    {RefData,
     <<>>,
     <<<<"junk">>>>,
     <<GZ, TR>>,
     <<GZ, TH(MaxContent), CB("a")>>,
     <<GZ, TH(1), CB("a"), TR, GZ, TH(1), CB("b"), TR>>}

DataDraw == IF vary = "payloads" THEN DataBodies ELSE {RefData}
RestDraw == IF vary = "payloads" THEN {<<>>, <<NData1>>, <<NBogus>>} ELSE {<<>>}

\* Expect `data`, and the return of Parser.Parse and ArtifactReader.Parse
ExpectData ==
    /\ pc = "expectData"
    /\ IF IsDataEntry(hdr)
       THEN /\ Return("nil")
            /\ dataEntry' \in DataDraw
            /\ rest' \in RestDraw
       ELSE /\ Return("Expected data")
            /\ UNCHANGED <<dataEntry, rest>>
    /\ UNCHANGED <<lexer, codec, files, vary, cursor, handles, nexts, outer, outerEnd, hdr, dispatched,
                   input, parsed, artifact, p, inner, ihdr, tee>>

----------------------------------------------------------------------------
(* Parser.Next and the readers it returns *)

\* what p.tarElement still holds of the entry it is positioned on
Left == SubSeq(dataEntry, cursor + 1, Len(dataEntry))

\* a buffered read that may also come back without a byte before the end
PullDrawMayStall(need) ==
    LET avail == Len(Left)
    IN  IF avail <= need THEN {0, avail}
        ELSE IF vary = "payloads" THEN {0} \cup (need .. avail)
        ELSE {0, avail}

\* how many bytes a buffered read that needs `need` of them takes from
\* p.tarElement: all there is, or any smaller amount that is enough
PullDraw(need) ==
    LET avail == Len(Left)
    IN  IF avail <= need THEN {avail}
        ELSE IF vary = "payloads" THEN need .. avail
        ELSE {avail}

\* func (p *Parser) Next(), having taken the first k bytes of Left
ParserNext(k) ==
    LET got == SubSeq(Left, 1, k)
    IN  IF got = <<>> THEN [err |-> "EOF", pr |-> Nil]
        ELSE IF got[1] # GZ THEN [err |-> "gzip: invalid header", pr |-> Nil]
        ELSE IF Len(got) < 2 \/ ~IsTH(got[2])
             THEN [err |-> "Failed to get the tar info", pr |-> Nil]
        ELSE [err |-> "nil",
              pr |-> Ptr([[buf |-> <<>>, left |-> 0, out |-> <<>>, state |-> "open"]
                              EXCEPT !.buf = SubSeq(got, 3, Len(got)),
                                            !.left = Size(got[2])])]

\* can every reader returned so far deliver nothing more
Drained == \A i \in 1 .. Len(handles) : handles[i].state = "EOF"

\* ar.Next(): main calls it once Parse has succeeded
CallNext ==
    /\ pc = "parsed"
    /\ Len(nexts) < MaxNext
    /\ \E k \in PullDraw(2) :
         LET r == ParserNext(k)
         IN  /\ cursor' = cursor + k
             /\ handles' = IF r.err = "nil" THEN Append(handles, r.pr[1]) ELSE handles
             /\ nexts' = Append(nexts, [err |-> r.err,
                                        pr |-> IF r.err = "nil" THEN Len(handles) + 1 ELSE 0,
                                        at |-> Len(outer),
                                        from |-> cursor,
                                        drained |-> Drained,
                                        delivered |-> [i \in 1 .. Len(handles) |-> handles[i].out]])
    /\ UNCHANGED <<lexer, codec, files, vary, dataEntry, rest, pc, outer, outerEnd, hdr, dispatched, input, parsed,
                   artifact, p, a, ret, inner, ihdr, tee>>

\* a Read that does not stop at the end of the file
PayloadReadPastEnd(h, k) ==
    IF h.state # "open" THEN h
    ELSE LET buf == IF h.buf # <<>> THEN h.buf ELSE SubSeq(Left, 1, k)
         IN  IF buf = <<>> THEN [h EXCEPT !.state = "EOF"]
             ELSE IF ~IsCB(Head(buf)) THEN [h EXCEPT !.buf = Tail(buf), !.state = "corrupt"]
             ELSE [h EXCEPT !.buf = Tail(buf), !.left = @ - 1,
                            !.out = Append(@, Head(buf)[2])]

\* one Read of a byte from the reader `h` that Next returned: tar.Reader.Read
\* over the gzip reader over p.tarElement, having taken k bytes of Left when
\* the buffer of the gzip reader was empty
PayloadRead(h, k) ==
    IF h.state # "open" THEN h
    ELSE IF h.left = 0 THEN [h EXCEPT !.state = "EOF"]
    ELSE LET buf == IF h.buf # <<>> THEN h.buf ELSE SubSeq(Left, 1, k)
         IN  IF buf = <<>> THEN [h EXCEPT !.state = "unexpected EOF"]
             ELSE IF ~IsCB(Head(buf)) THEN [h EXCEPT !.buf = Tail(buf), !.state = "corrupt"]
             ELSE [h EXCEPT !.buf = Tail(buf), !.left = @ - 1,
                            !.out = Append(@, Head(buf)[2])]

\* io.Copy(os.Stdout, r), one Read at a time
ReadPayload ==
    /\ pc = "parsed"
    /\ \E i \in 1 .. Len(handles) :
         /\ handles[i].state = "open"
         /\ LET pulls == handles[i].left > 0 /\ handles[i].buf = <<>>
            IN  \E k \in (IF pulls THEN PullDraw(1) ELSE {0}) :
                   /\ handles' = [handles EXCEPT ![i] = PayloadRead(@, k)]
                   /\ cursor' = cursor + k
    /\ UNCHANGED <<lexer, codec, files, vary, dataEntry, rest, nexts, pc, outer, outerEnd, hdr, dispatched, input,
                   parsed, artifact, p, a, ret, inner, ihdr, tee>>

\* func main(): it has ended when Parse failed (return after the two
\* Println), when a panic unwound it, when ar.Next() failed (os.Exit(1)), or
\* when io.Copy of the reader of the first Next has come to its end
MainEnded ==
    \/ pc \in {"failed", "panicked"}
    \/ /\ pc = "parsed"
       /\ nexts # <<>>
       /\ nexts[1].err # "nil" \/ handles[1].state # "open"

\* the exit status of the process: 2 for a panic (the Go runtime), 1 for
\* os.Exit(1), 0 for every return from main
MainExit ==
    IF pc = "panicked" THEN 2
    ELSE IF pc = "parsed" /\ nexts # <<>> /\ nexts[1].err # "nil" THEN 1
    ELSE 0

\* what main has printed itself
MainPrinted ==
    IF pc = "failed" THEN <<"Failed to parse the artifact", ret.err>>
    ELSE IF pc = "parsed" /\ nexts # <<>> /\ nexts[1].err # "nil"
    THEN <<"Failed to get the payload">>
    ELSE <<>>

Next ==
    \/ CallParse
    \/ ExpectVersion
    \/ ExpectManifest
    \/ OptManifestSig
    \/ OptManifestAugment
    \/ AfterManifestAugment
    \/ ExpectHeader
    \/ ScriptsLoop
    \/ SubHeadersLoop
    \/ OptHeaderAugment
    \/ AfterHeaderAugment
    \/ ExpectData
    \/ CallNext
    \/ ReadPayload

Spec == Init /\ [][Next]_vars

\* main is sequential code: whatever step it can take next, it takes
FairSpec == Spec /\ WF_vars(Next)

----------------------------------------------------------------------------
(* The section values on their own.  A caller that holds a section value    *)
(* and a byte buffer encodes the value with Read(buf) and decodes bytes     *)
(* with Parse (Write for MetaData) into an empty value.  What the caller    *)
(* receives from Read(b) is n and the contents of its own buffer: b[:n].    *)

MaxEntries == 2

\* a text line of Manifest.Read has four tokens
BufLen == 4 * MaxEntries

\* the text Manifest.Read builds in br: "<Signature> <Name>\n" per entry
RECURSIVE ManifestText(_)
ManifestText(entries) ==
    IF entries = <<>> THEN <<>>
    ELSE Head(entries).Signature \o <<SP>> \o Head(entries).Name \o <<NL>>
             \o ManifestText(Tail(entries))

\* func (m *Manifest) Read(b []byte): b = br.Bytes() rebinds the parameter,
\* the caller's buffer keeps its contents; n is the length of the text
ManifestRead(m, b) ==
    LET br == ManifestText(m.Data)
    IN  [n |-> Len(br), err |-> "nil", b |-> b]

\* func (m *ManifestSig) Read(b []byte): b = m.sig rebinds the parameter
ManifestSigRead(m, b) == [n |-> Len(m.sig), err |-> "nil", b |-> b]

\* func (t MetaData) Read(b []byte)
MetaDataRead(m, b) == [n |-> 0, err |-> "Unimplemented", b |-> b]

\* the values and the bytes the caller starts from
ManifestEntryValues ==
    {[Signature |-> <<Word(d)>>, Name |-> <<Word(f)>>] :
        d \in {"5ac39471", "b7793eb1"},
        f \in {"version", "header.tar.gz", "data/0000.tar.gz"}}

RECURSIVE SeqsUpTo(_, _)
SeqsUpTo(S, n) ==
    IF n = 0 THEN {<<>>}
    ELSE LET shorter == SeqsUpTo(S, n - 1)
         IN  shorter \cup {Append(q, x) : q \in shorter, x \in S}

ManifestValues == {[Data |-> d] : d \in SeqsUpTo(ManifestEntryValues, MaxEntries)}

\* the bytes of a manifest section that lists `entries`:
\* "<checksum><two spaces><path>\n" per entry
RECURSIVE ManifestSection(_)
ManifestSection(entries) ==
    IF entries = <<>> THEN <<>>
    ELSE Head(entries).Signature \o <<SP, SP>> \o Head(entries).Name \o <<NL>>
             \o ManifestSection(Tail(entries))

SigValues == {<<>>, <<"s1">>, <<"s1", "s2">>}

MetaDataBodies == {<<>>, <<"m1">>, <<"m1", "m2">>}

\* a caller's buffer of make([]byte, BufLen): zero bytes
ZeroBuffer(kind) ==
    [i \in 1 .. BufLen |-> IF kind = "Manifest" THEN Word("0x00") ELSE "0x00"]

CodecStart(kind, first, obj, bytes) ==
    [kind |-> kind, first |-> first, step |-> 0, src |-> IF first = "Read" THEN obj ELSE bytes,
     obj |-> obj, buf |-> ZeroBuffer(kind), n |-> 0, err |-> "nil"]

InitCodec ==
    /\ vary = "entries"
    /\ lexer = LexerIdle
    /\ codec \in {CodecStart("Manifest", "Read", m, <<>>) : m \in ManifestValues}
                     \cup {CodecStart("Manifest", "Parse", ZeroManifest, ManifestSection(m.Data)) :
                               m \in ManifestValues}
                     \cup {CodecStart("ManifestSig", "Read", [sig |-> g], <<>>) : g \in SigValues}
                     \cup {CodecStart("ManifestSig", "Parse", ZeroManifestSig, g) : g \in SigValues}
                     \cup {CodecStart("MetaData", "Parse", ZeroMetaData, g) : g \in MetaDataBodies}
    /\ InitParser

\* x.Read(b) of the section value x
ReadOf(kind, obj, b) ==
    CASE kind = "Manifest" -> ManifestRead(obj, b)
      [] kind = "ManifestSig" -> ManifestSigRead(obj, b)
      [] kind = "MetaData" -> MetaDataRead(obj, b)

\* decoding `bytes` into an empty value of the kind
ParseOf(kind, bytes) ==
    CASE kind = "Manifest" ->
             LET r == ManifestParse(Ptr(ZeroManifest), Whole(bytes, "EOF"))
             IN  [err |-> r.err, obj |-> r.obj]
      [] kind = "ManifestSig" ->
             LET r == ManifestSigParse(Ptr(ZeroManifestSig), Whole(bytes, "EOF"))
             IN  [err |-> r.err, obj |-> r.obj]
      [] kind = "MetaData" ->
             LET w == MetaDataWrite(ZeroMetaData, bytes)
             IN  [err |-> w.err, obj |-> w.m]

\* b[:n] of the caller's buffer
Delivered(b, n) == SubSeq(b, 1, IF n < Len(b) THEN n ELSE Len(b))

\* the caller encodes the value it holds: n, err := x.Read(buf)
CodecRead ==
    /\ codec.kind # "none"
    /\ \/ codec.first = "Read" /\ codec.step = 0
       \/ codec.first = "Parse" /\ codec.step = 1 /\ codec.err = "nil"
    /\ LET r == ReadOf(codec.kind, codec.obj, codec.buf)
       IN  codec' = [codec EXCEPT !.step = @ + 1, !.buf = r.b, !.n = r.n,
                                  !.err = r.err]
    /\ UNCHANGED <<parserVars, lexer>>

\* the caller decodes into an empty value: the bytes it started from, or the
\* bytes Read delivered to it
CodecParse ==
    /\ codec.kind # "none"
    /\ \/ codec.first = "Parse" /\ codec.step = 0
       \/ codec.first = "Read" /\ codec.step = 1 /\ codec.err = "nil"
    /\ LET bytes == IF codec.first = "Parse" THEN codec.src
                    ELSE Delivered(codec.buf, codec.n)
           r == ParseOf(codec.kind, bytes)
       IN  codec' = [codec EXCEPT !.step = @ + 1, !.obj = r.obj, !.err = r.err]
    /\ UNCHANGED <<parserVars, lexer>>

NextCodec ==
    \/ CodecRead
    \/ CodecParse

SpecCodec == InitCodec /\ [][NextCodec]_vars

----------------------------------------------------------------------------
(* The lexer (package lexer): lex makes a Lexer and starts run in a         *)
(* goroutine; run calls state functions until one returns nil and closes    *)
(* l.items; the state functions call emit, which sends on l.items; the      *)
(* caller of lex receives from the channel lex returned.  The state         *)
(* functions themselves are not part of the source: a run of the lexer is   *)
(* a finite chain of them, each emitting one token or none.  A channel is   *)
(* nil (the zero value) or made; a send or a receive on a nil channel       *)
(* blocks forever and close of a nil channel panics.                        *)

MaxStateFns == 3

\* const ( Version TokenType = iota, Manifest, ManifestSignature )
TokenTypes == {"Version", "Manifest", "ManifestSignature"}

\* type stateFn func(*lexer) stateFn: what the state functions of one run do
StateFns == TokenTypes \cup {"no token"}

InitLexer ==
    /\ vary = "entries"
    /\ codec = CodecIdle
    /\ lexer \in {[LexerIdle EXCEPT !.prog = q] : q \in SeqsUpTo(StateFns, MaxStateFns)}
    /\ InitParser

\* func lex(name, input string): l := &lexer{} leaves every field at its
\* zero value, so l.items is the nil channel; go l.run(); return l, l.items
Lex ==
    /\ lexer.run = "none"
    /\ lexer.user = "none"
    /\ lexer' = [lexer EXCEPT !.items = Nil, !.run = "running", !.user = "ready"]
    /\ UNCHANGED <<parserVars, codec>>

\* run: state = state(lexer), for a state that is not nil; the state
\* function goes as far as the send of its emit, if it has one
RunState ==
    /\ lexer.run = "running"
    /\ lexer.prog # <<>>
    /\ LET fn == Head(lexer.prog)
       IN  lexer' = IF fn \in TokenTypes
                    THEN [lexer EXCEPT !.prog = Tail(@), !.run = "sending",
                                       !.pending = fn, !.emitted = Append(@, fn)]
                    ELSE [lexer EXCEPT !.prog = Tail(@)]
    /\ UNCHANGED <<parserVars, codec>>

\* emit: the send on l.items.  On a nil channel the goroutine blocks for
\* good; on a made, unbuffered one it hands the token to a waiting receiver
Emit ==
    /\ lexer.run = "sending"
    /\ IsNil(lexer.items) \/ lexer.user = "receiving"
    /\ lexer' = IF IsNil(lexer.items)
                THEN [lexer EXCEPT !.run = "blocked"]
                ELSE [lexer EXCEPT !.run = "running", !.user = "ready",
                                   !.pending = "none",
                                   !.received = Append(@, lexer.pending)]
    /\ UNCHANGED <<parserVars, codec>>

\* run: the state is nil, close(l.items)
CloseItems ==
    /\ lexer.run = "running"
    /\ lexer.prog = <<>>
    /\ lexer' = IF IsNil(lexer.items)
                THEN [lexer EXCEPT !.run = "panicked"]
                ELSE [lexer EXCEPT !.run = "done", !.closes = @ + 1,
                                   !.items = Ptr([closed |-> TRUE])]
    /\ UNCHANGED <<parserVars, codec>>

\* the caller of lex: a receive from the channel lex returned
Receive ==
    /\ lexer.user = "ready"
    /\ lexer.run # "panicked"
    /\ lexer' = IF IsNil(lexer.items) THEN [lexer EXCEPT !.user = "blocked"]
                ELSE IF lexer.items[1].closed THEN [lexer EXCEPT !.user = "sawClosed"]
                ELSE [lexer EXCEPT !.user = "receiving"]
    /\ UNCHANGED <<parserVars, codec>>

NextLexer ==
    \/ Lex
    \/ RunState
    \/ Emit
    \/ CloseItems
    \/ Receive

SpecLexer == InitLexer /\ [][NextLexer]_vars

----------------------------------------------------------------------------
(* Properties *)

Done == pc \in {"parsed", "failed", "panicked"}

\* HeaderTar.Parse has just returned nil
HeaderTarReturnedNil == pc = "optHeaderAugment"

DispatchedTo(i, to) ==
    \E j \in 1 .. Len(dispatched) : dispatched[j].at = i /\ dispatched[j].to = to

\* the lines of the manifest entry as the format defines them
ManifestEntries == ManifestParse(Nil, Whole(input.manifest, "EOF")).obj.Data

\* C1: an archive version, manifest, manifest.sig, header.tar.gz, data/...
\* (signature present, manifest-augment absent) parses successfully, and
\* header.tar.gz is the entry handed to the header archive parser.
C1_SigWithoutAugmentParses ==
    (/\ Done
     /\ Len(outer) >= 5
     /\ SubSeq(outer, 1, 5) = <<NVersion, NManifest, NManifestSig, NHeaderTar, NData0>>)
        => /\ pc = "parsed"
           /\ DispatchedTo(4, "HeaderTar")

\* C2: Parse never skips an entry: when it succeeds, every entry read before
\* the data entry it stops at was handed to a section parser.
C2_NoEntrySkipped ==
    pc = "parsed" =>
        \A i \in 1 .. (Len(outer) - 1) : \E j \in 1 .. Len(dispatched) : dispatched[j].at = i

\* C3: an archive whose first entry is not `version`, or whose second entry
\* is not `manifest`, makes Parse return an error and no Artifact.
C3_WrongStartFails ==
    (\/ (Len(outer) >= 1 /\ outer[1] # NVersion)
     \/ (Len(outer) >= 2 /\ outer[2] # NManifest))
        => /\ pc = "failed"
           /\ ret.err = (IF outer[1] # NVersion THEN "Expected version" ELSE "Expected manifest")
           /\ IsNil(ret.ar)
           /\ IsNil(a.p)

C3_Witness == pc = "failed" /\ outer = <<NManifest>> /\ ret.err = "Expected version"

\* C4: manifest-augment directly after manifest (no manifest.sig) is never
\* parsed as an augment manifest and makes Parse return the structural error
\* of a missing header.tar.gz; ManifestAugment.Parse only ever gets the entry
\* that directly follows a parsed manifest.sig.
C4_AugmentOnlyAfterSig ==
    /\ (/\ Len(outer) >= 3
        /\ SubSeq(outer, 1, 3) = <<NVersion, NManifest, NManifestAugment>>)
          => /\ Len(outer) = 3
             /\ pc \in {"expectHeader", "failed"}
             /\ pc = "failed" => (ret.err = "Expected header.tar.gz" /\ IsNil(ret.ar))
             /\ ~DispatchedTo(3, "ManifestAugment")
             /\ IsNil(parsed.ManifestAugment)
    /\ \A j \in 1 .. Len(dispatched) :
          dispatched[j].to = "ManifestAugment"
            => /\ dispatched[j].at > 1
               /\ outer[dispatched[j].at - 1] = NManifestSig
               /\ DispatchedTo(dispatched[j].at - 1, "ManifestSig")

C4_Witness ==
    /\ pc = "failed"
    /\ outer = <<NVersion, NManifest, NManifestAugment>>
    /\ ret.err = "Expected header.tar.gz"

\* C5: after ArtifactReader.Parse returns without error, the Artifact it
\* returns and stores holds the parsed values: a Manifest with one entry per
\* line of the manifest section, and the parsed Version.
C5_ArtifactHoldsParsedValues ==
    pc = "parsed" =>
        /\ ~IsNil(ret.ar)
        /\ ~IsNil(ret.ar[1].Manifest)
        /\ ret.ar[1].Manifest[1].Data = ManifestEntries
        /\ ~IsNil(ret.ar[1].Version)
        /\ ret.ar[1].Version[1].Format = "mender"
        /\ a.Artifact = ret.ar[1]

\* C6: every HeaderTar.Parse that succeeds has as many sub-headers as its
\* header-info declares payloads, in the archive and in headerInfo.Payloads.
C6_PayloadCountInvariant ==
    HeaderTarReturnedNil =>
        LET h == HeaderTarOf(artifact)
        IN  /\ Len(h.headers) = Len(inner[1].body.payloads)
            /\ Len(h.headers) = Len(h.headerInfo.Payloads)

\* C7: a successful HeaderTar.Parse yields one SubHeader per type-info entry
\* of the archive, whether or not the last one is followed by meta-data.
C7_OneSubHeaderPerTypeInfo ==
    HeaderTarReturnedNil =>
        Len(HeaderTarOf(artifact).headers) = TypeInfoCount(inner)

\* C8: an artifact whose version digest differs from the checksum its
\* manifest records for `version` is never parsed with a plain success: the
\* caller gets an integrity failure.
C8_DigestMismatchIsReported ==
    pc = "parsed" =>
        \A i \in 1 .. Len(ManifestEntries) :
            ManifestEntries[i].Name = <<Word("version")>>
                => ManifestEntries[i].Signature = <<Hex(Sha256(input.version))>>

\* Version.Parse has returned nil
VersionParsed ==
    /\ DispatchedTo(1, "Version")
    /\ ~(pc = "failed" /\ ret.err = "Failed to parse the Version header")

\* C9: after Version.Parse returns nil the digest it stored is the sha-256 of
\* exactly the bytes of the version entry, however the reads were cut; after
\* a failed Version.Parse no digest is stored.
C9_VersionDigest ==
    DispatchedTo(1, "Version") =>
        parsed.Version[1].shaSum =
            (IF VersionParsed THEN Sha256(input.version) ELSE Nil)

\* a version entry that only parses when it arrives in two reads
C9_Witness ==
    /\ pc = "expectManifest"
    /\ input.version = <<"{", "}", "{", "}">>
    /\ parsed.Version[1].shaSum = Sha256(input.version)

\* C10: after every HeaderTar.Parse that returns nil, shaSum is the sha-256
\* of all the bytes of the header.tar.gz entry.
C10_HeaderDigest ==
    HeaderTarReturnedNil => HeaderTarOf(artifact).shaSum = Sha256(tee.raw)

----------------------------------------------------------------------------
(* Properties of Parser.Next *)

\* a data entry that is the gzip stream of a tar archive whose first file is
\* complete
WellFormedData(b) ==
    /\ Len(b) >= 2
    /\ b[1] = GZ
    /\ IsTH(b[2])
    /\ Len(b) >= 2 + Size(b[2])
    /\ \A i \in 3 .. (2 + Size(b[2])) : IsCB(b[i])

\* the content of that file
ContentOf(b) == [i \in 1 .. Size(b[2]) |-> b[i + 2][2]]

IsPrefix(s, t) == Len(s) <= Len(t) /\ s = SubSeq(t, 1, Len(s))

\* the outer entry Parser.Parse stopped at
DataStart == dispatched[Len(dispatched)].at + 1

NDataSeq == <<NData0, NData1>>

\* C11: after a successful Parse of an artifact with a well-formed data
\* entry, the first Next succeeds and its reader (no other Next being called
\* before it is drained) yields the content bytes of the file in that entry,
\* in order, then the end of the stream, and nothing else.
C11_FirstPayloadBytes ==
    (/\ pc = "parsed"
     /\ WellFormedData(dataEntry)
     /\ Len(nexts) >= 1
     /\ Len(nexts) >= 2 => nexts[2].drained)
        => /\ nexts[1].err = "nil"
           /\ nexts[1].pr = 1
           /\ handles[1].state \in {"open", "EOF"}
           /\ IsPrefix(handles[1].out, ContentOf(dataEntry))
           /\ handles[1].state = "EOF" => handles[1].out = ContentOf(dataEntry)
           /\ handles[1].left = Len(ContentOf(dataEntry)) - Len(handles[1].out)

\* the reference payload read to its end, the entry taken from the archive
\* in more than one piece
C11_Witness ==
    /\ vary = "payloads"
    /\ dataEntry = RefData
    /\ Len(nexts) = 1
    /\ handles[1].state = "EOF"
    /\ handles[1].out = <<"a", "b">>
    /\ cursor < Len(dataEntry)

\* C12: with n data entries, the i-th Next (the earlier payloads drained)
\* returns a reader over the i-th data entry, for every i <= n.
C12_NextAdvances ==
    \A i \in 1 .. Len(nexts) :
        (/\ nexts[i].drained
         /\ WellFormedData(dataEntry)
         /\ i <= 1 + Len(rest)
         /\ \A j \in 1 .. Len(rest) : IsDataEntry(rest[j]))
            => /\ nexts[i].err = "nil"
               /\ nexts[i].at = DataStart + i - 1

\* C13: for an artifact with one payload, the second Next (the first payload
\* drained) yields the end-of-payloads outcome, not a failure.
C13_EndOfPayloads ==
    (/\ Len(nexts) >= 2
     /\ dataEntry = RefData
     /\ rest = <<>>
     /\ nexts[1].err = "nil"
     /\ nexts[2].drained)
        => nexts[2].err = "EOF"

\* C14: a second Next before the first reader is drained returns an error,
\* or the first reader delivers nothing after it.
C14_SingleActivePayload ==
    (/\ Len(nexts) >= 2
     /\ nexts[1].err = "nil"
     /\ ~nexts[2].drained
     /\ nexts[2].err = "nil")
        => /\ handles[1].out = nexts[2].delivered[1]
           /\ handles[1].state # "EOF"

\* C15: a Next that succeeds was positioned on the entry data/NNNN.tar.gz
\* with NNNN the number of payloads returned before.
C15_ContiguousNumbering ==
    \A i \in 1 .. Len(nexts) :
        nexts[i].err = "nil"
            => /\ nexts[i].at = DataStart + i - 1
               /\ outer[nexts[i].at] = NDataSeq[i]

\* C16: when Parse has returned without error and Next has not been called,
\* the last entry read from the outer archive is the data entry that follows
\* the header section, none of its bytes has been read and no reader
\* exists; before Parse returns no payload byte is read either.
C16_ParseStopsAtData ==
    /\ pc # "parsed" => (cursor = 0 /\ handles = <<>> /\ nexts = <<>>)
    /\ (pc = "parsed" /\ nexts = <<>>)
         => /\ cursor = 0
            /\ handles = <<>>
            /\ Len(outer) = DataStart
            /\ Dir(outer[Len(outer)]) = <<"data">>
            /\ hdr = outer[Len(outer)]
            /\ dispatched[Len(dispatched)].to \in {"HeaderTar", "HeaderAugment"}
    /\ cursor > 0 => nexts # <<>>

C16_Witness ==
    /\ pc = "parsed"
    /\ nexts = <<>>
    /\ cursor = 0
    /\ dataEntry = RefData
    /\ outer = <<NVersion, NManifest, NHeaderTar, NData0>>

\* C17: an archive with a well-formed header-augment.tar.gz directly after
\* header.tar.gz parses successfully.
C17_HeaderAugmentParses ==
    (/\ DispatchedTo(Len(outer), "HeaderAugment")
     /\ DispatchedTo(Len(outer) - 1, "HeaderTar")
     /\ input.headerAugment =
            <<[gzip |-> TRUE, first |-> NHeaderInfo, info |-> JsonDoc(TRUE, Payloads(1), "")]>>
     /\ outerEnd = "open")
        => pc = "afterHeaderAugment"

\* C18: when the outer archive ends before a header.tar.gz with a
\* sub-header has been parsed, Parse returns an error: a Next() that fails
\* ends Parse with that error, and Parse gets past the header only with
\* version, manifest and a header archive with a type-info parsed.
C18_TruncatedArchiveFails ==
    /\ (hdr = Nil /\ outerEnd # "open")
         => (pc = "failed" /\ ret.err = outerEnd /\ IsNil(ret.ar))
    /\ pc \in {"optHeaderAugment", "afterHeaderAugment", "expectData", "parsed"}
         => /\ DispatchedTo(1, "Version")
            /\ DispatchedTo(2, "Manifest")
            /\ \E i \in 3 .. Len(outer) : DispatchedTo(i, "HeaderTar")
            /\ TypeInfoCount(inner) >= 1

C18_Witness ==
    /\ pc = "failed"
    /\ outer = <<NVersion, NManifest>>
    /\ outerEnd = "EOF"
    /\ ret.err = "EOF"

\* C19: for an archive that ends right after the header section, Parse
\* succeeds exactly when the header-info declares no payload.
C19_NoDataIffNoPayloads ==
    (/\ Done
     /\ DispatchedTo(Len(outer), "HeaderTar")
     /\ TypeInfoCount(inner) >= 1
     /\ outerEnd = "EOF")
        => (pc = "parsed" <=> Len(inner[1].body.payloads) = 0)

\* C20: an entry outside data/ that follows the first data entry makes the
\* Next that reaches it fail with an error, not end the payloads.
C20_OnlyDataEntries ==
    (/\ Len(nexts) >= 2
     /\ nexts[1].err = "nil"
     /\ nexts[2].drained
     /\ rest # <<>>
     /\ ~IsDataEntry(rest[1]))
        => nexts[2].err \notin {"nil", "EOF"}

----------------------------------------------------------------------------
(* Properties of the section parsers *)

\* a manifest line without separator, without checksum or without path
MalformedLine(l) ==
    LET t == Split(l, SP)
    IN  Len(t) < 2 \/ t[1] = <<>> \/ t[Len(t)] = <<>>

\* C21: a manifest with a malformed line makes Manifest.Parse, and Parse,
\* return a parse error: no crash, no entry with an empty field, no skip.
C21_MalformedLineIsParseError ==
    (/\ DispatchedTo(2, "Manifest")
     /\ \E i \in 1 .. Len(ScanLines(input.manifest)) :
            MalformedLine(ScanLines(input.manifest)[i]))
        => /\ pc = "failed"
           /\ ret.err = "Failed to parse the Manifest header"


\* C22: encoding a Manifest with Manifest.Read and decoding the bytes the
\* caller received with Manifest.Parse into an empty Manifest gives back the
\* same entries in the same order.
C22_ManifestRoundTrip ==
    (codec.kind = "Manifest" /\ codec.first = "Read" /\ codec.step = 2)
        => /\ codec.err = "nil"
           /\ codec.obj = codec.src

\* the number of lines of a manifest section whose lines are
\* <checksum> SP SP <path> NL, checksum and path one token each
LinesOf(text) == Len(text) \div 5

\* C23: Manifest.Parse of a section of n well-formed lines into an empty
\* Manifest yields n entries, the i-th with the checksum and the path of the
\* i-th line.
C23_ParseKeepsSourceOrder ==
    (codec.kind = "Manifest" /\ codec.first = "Parse" /\ codec.step >= 1)
        => /\ Len(codec.obj.Data) = LinesOf(codec.src)
           /\ \A i \in 1 .. LinesOf(codec.src) :
                  /\ codec.obj.Data[i].Signature = <<codec.src[5 * (i - 1) + 1]>>
                  /\ codec.obj.Data[i].Name = <<codec.src[5 * (i - 1) + 4]>>

C23_Witness ==
    /\ codec.kind = "Manifest" /\ codec.first = "Parse" /\ codec.step = 1
    /\ LinesOf(codec.src) = 2
    /\ codec.src[1] # codec.src[6]
    /\ codec.err = "nil"
    /\ Len(codec.obj.Data) = 2

\* C24: the ManifestSig decoded from a manifest.sig entry holds the raw bytes
\* of that entry, and ManifestSig.Read delivers those bytes to the caller.
C24_SignatureReadDelivers ==
    (codec.kind = "ManifestSig" /\ codec.first = "Parse" /\ codec.step = 2)
        => /\ codec.obj.sig = codec.src
           /\ codec.err = "nil"
           /\ Delivered(codec.buf, codec.n) = codec.src

\* C25: a type-info entry whose JSON lacks the type field makes
\* TypeInfo.Write, and with it HeaderTar.Parse, return an error.
C25_MissingTypeIsRejected ==
    HeaderTarReturnedNil
        => \A i \in 1 .. Len(inner) :
               (IsTypeInfoEntry(inner[i].name) /\ inner[i].body.json)
                   => inner[i].body.type # ""

\* C26: the MetaData decoded from a meta-data entry holds the bytes of the
\* entry, and encoding it (MetaData.Read) gives those bytes back.
C26_MetaDataPassThrough ==
    (codec.kind = "MetaData" /\ codec.first = "Parse" /\ codec.step >= 1)
        => /\ codec.obj.data = codec.src
           /\ codec.step = 2 => /\ codec.err = "nil"
                                /\ Delivered(codec.buf, codec.n) = codec.src

\* the header archive read so far is well formed: header-info with JSON,
\* then scripts, then payload directories from headers/0000 on, each with a
\* JSON type-info and at most a meta-data right behind it
WellFormedHeaderArchive ==
    /\ Len(inner) >= 2
    /\ inner[1].name = NHeaderInfo
    /\ inner[1].body.json
    /\ \A i \in 2 .. Len(inner) :
           LET name == inner[i].name
               before == inner[i - 1].name
               first == i = 2 \/ Dir(before) = <<"scripts">>
           IN  \/ Dir(name) = <<"scripts">> /\ first
               \/ /\ Base(name) = "type-info"
                  /\ inner[i].body.json
                  /\ first => Dir(name) = <<"headers", "0000">>
               \/ /\ Base(name) = "meta-data"
                  /\ ~first
                  /\ Base(before) = "type-info"
                  /\ Dir(before) = Dir(name)

\* some payload directory read so far has a type-info and no meta-data
HasTypeInfoOnlyDir ==
    \E i \in 2 .. Len(inner) :
        /\ Base(inner[i].name) = "type-info"
        /\ i < Len(inner) => Base(inner[i + 1].name) # "meta-data"

\* the nested archive has been read to its end
HeaderArchiveEnded == tee.raw # <<>> /\ tee.raw[Len(tee.raw)] = "gzip-trailer"

\* header.tar.gz is the last outer entry Parse has read, and reading the
\* outer archive has not failed: HeaderTar.Parse runs or has just returned
HeaderTarIsLastRead == outerEnd = "open" /\ DispatchedTo(Len(outer), "HeaderTar")

\* C27: a well-formed header archive with payload directories that hold only
\* a type-info is accepted by HeaderTar.Parse: while it is read the only
\* failure is a read error of the stream, and at its end Parse returns nil,
\* whether the type-info is followed by the next type-info or by the end.
C27_TypeInfoOnlyAccepted ==
    (HeaderTarIsLastRead /\ WellFormedHeaderArchive /\ HasTypeInfoOnlyDir)
        => /\ \/ pc \in {"subHeaders", "optHeaderAugment"}
              \/ pc = "failed" /\ ret.err = "HeaderTar: failed to get next header"
           /\ HeaderArchiveEnded => pc = "optHeaderAugment"

C27_Witness ==
    /\ pc = "optHeaderAugment"
    /\ HeaderTarIsLastRead
    /\ HeaderArchiveEnded
    /\ [i \in 1 .. Len(inner) |-> inner[i].name]
           = <<NHeaderInfo, NTypeInfo(1), NTypeInfo(2)>>
    /\ WellFormedHeaderArchive

\* the entries of the two manifests the section parsers have filled
PrimaryEntries ==
    IF IsNil(parsed.Manifest) THEN {}
    ELSE {parsed.Manifest[1].Data[i] : i \in 1 .. Len(parsed.Manifest[1].Data)}

AugmentEntries ==
    IF IsNil(parsed.ManifestAugment) THEN {}
    ELSE {parsed.ManifestAugment[1].augData[i] :
              i \in 1 .. Len(parsed.ManifestAugment[1].augData)}

\* a step that changes the ManifestAugment leaves the Manifest alone, and
\* the other way round, in the parsers' objects and in the Artifact
ManifestFrame ==
    /\ (parsed.ManifestAugment' # parsed.ManifestAugment
            \/ artifact.ManifestAugment' # artifact.ManifestAugment)
           => /\ parsed.Manifest' = parsed.Manifest
              /\ artifact.Manifest' = artifact.Manifest
    /\ (parsed.Manifest' # parsed.Manifest \/ artifact.Manifest' # artifact.Manifest)
           => /\ parsed.ManifestAugment' = parsed.ManifestAugment
              /\ artifact.ManifestAugment' = artifact.ManifestAugment

\* C28: parsing manifest-augment leaves the Manifest unchanged, parsing
\* manifest leaves the ManifestAugment unchanged, and no entry of one is
\* found in the other.
C28_ManifestsIndependent ==
    /\ [](PrimaryEntries \cap AugmentEntries = {})
    /\ [][ManifestFrame]_vars

C28_Witness ==
    /\ pc = "afterManifestAugment"
    /\ DispatchedTo(2, "Manifest")
    /\ DispatchedTo(4, "ManifestAugment")
    /\ Len(parsed.Manifest[1].Data) = 2
    /\ Len(parsed.ManifestAugment[1].augData) = 1

\* C29: after a successful Parse the Version decoded from the version entry
\* has the format "mender"; any other format makes Parse fail.
C29_FormatIsMender ==
    (pc = "parsed" /\ DispatchedTo(1, "Version"))
        => /\ ~IsNil(parsed.Version)
           /\ parsed.Version[1].Format = "mender"

\* C30: a section parser that meets a read error on its stream reports an
\* error and Parse fails: here, for the read error met by Manifest.Parse.
C30_ReadErrorIsReported ==
    (/\ DispatchedTo(Len(outer), "Manifest")
     /\ outerEnd = "unexpected EOF"
     /\ \A i \in 1 .. Len(ScanLines(input.manifest)) :
            ~MalformedLine(ScanLines(input.manifest)[i]))
        => pc = "failed"

----------------------------------------------------------------------------
(* Properties of the whole run: Parse, Next, Read and the program          *)

\* one step of the outer cursor: the entries read so far stay read, in their
\* order, the position inside the data entry does not go back, and the bytes
\* behind the position are not replaced
CursorStep ==
    /\ Len(outer') >= Len(outer)
    /\ SubSeq(outer', 1, Len(outer)) = outer
    /\ cursor' >= cursor
    /\ cursor > 0 => dataEntry' = dataEntry

\* C31: across Parse, Next and the payload Reads the cursor over the outer
\* archive never moves back: no entry is revisited and no byte of the data
\* entry is handed out twice.
C31_CursorNeverMovesBack ==
    /\ [](cursor <= Len(dataEntry))
    /\ [][CursorStep]_vars

C31_Witness ==
    /\ pc = "parsed"
    /\ Len(nexts) = 2
    /\ Len(handles) = 2
    /\ handles[1].out # <<>>
    /\ handles[2].out # <<>>
    /\ cursor = Len(dataEntry)

\* C32: the program ends with exit status 0 when the artifact parsed, and
\* with a message and a non-zero exit status when Parse returned an error.
C32_ExitStatus ==
    MainEnded
        => /\ pc = "parsed" => MainExit = 0
           /\ pc = "failed" => (MainPrinted # <<>> /\ MainExit # 0)

\* the directory of the entry is a payload index directory headers/NNNN
IsPayloadIndexDir(name) ==
    /\ Len(name) = 3
    /\ name[1] = "headers"
    /\ \E i \in 1 .. Len(IndexNames) : name[2] = IndexNames[i]

\* the script entries of the header archive read so far that come before
\* the first entry of a payload index directory, in archive order
RECURSIVE ScriptEntriesOf(_)
ScriptEntriesOf(seq) ==
    IF seq = <<>> \/ IsPayloadIndexDir(Head(seq).name) THEN <<>>
    ELSE IF Dir(Head(seq).name) = <<"scripts">>
         THEN <<Base(Head(seq).name)>> \o ScriptEntriesOf(Tail(seq))
         ELSE ScriptEntriesOf(Tail(seq))

\* C33: between header-info and the first entry of a payload index directory
\* headers/NNNN every entry must be a script; the scripts are recorded in
\* archive order by base name; the first headers/NNNN entry ends the scripts
\* run and is taken as a sub-header instead of being rejected as a non-script.
C33_ScriptsRun ==
    /\ (pc = "failed" /\ ret.err = "Expected scripts")
           => /\ Dir(inner[Len(inner)].name) # <<"scripts">>
              /\ ~IsPayloadIndexDir(inner[Len(inner)].name)
    /\ (HeaderTarIsLastRead /\ pc \in {"subHeaders", "optHeaderAugment"})
           => LET names == HeaderTarOf(artifact).scripts[1].names
              IN  [i \in 1 .. Len(names) |-> Base(names[i])] = ScriptEntriesOf(inner)

\* the Scripts of New(): no Next has been called on it
FreshScripts == New.HeaderTar[1].scripts[1]

\* C34: Scripts.Write on a Scripts without a Next returns an error and
\* writes nothing; within HeaderTar.Parse the bytes of a scripts/<Name> entry
\* are written only after Next(<Name>) succeeded for that entry, and to the
\* file that Next opened.
C34_WriteFollowsNext ==
    /\ LET w == ScriptsWrite(FreshScripts, Opaque)
       IN  w.err # "nil" /\ IsNil(w.file)
    /\ \A j \in 1 .. Len(files) :
           LET f == files[j]
               names == HeaderTarOf(artifact).scripts[1].names
           IN  /\ f.entry \in 2 .. Len(inner)
               /\ Dir(inner[f.entry].name) = <<"scripts">>
               /\ f.file = Base(inner[f.entry].name)
               /\ f.bytes = inner[f.entry].body
               /\ Len(names) >= j
               /\ names[j] = <<ScriptDir, f.file>>

C34_Witness ==
    /\ pc = "subHeaders"
    /\ Len(files) = 1
    /\ files[1].entry = 2
    /\ files[1].file = ScriptNames[1]

\* C35: the payload iterator only moves forward: after a Next that reported
\* the end (io.EOF) every later Next reports the end and returns no reader,
\* and a later Next never starts at or before the place an earlier
\* successful Next started from.
C35_ExhaustionIsFinal ==
    \A i \in 1 .. Len(nexts) : \A j \in 1 .. Len(nexts) :
        i < j =>
            /\ nexts[i].err = "EOF" => (nexts[j].err = "EOF" /\ nexts[j].pr = 0)
            /\ nexts[i].from <= nexts[j].from
            /\ nexts[i].err = "nil" => nexts[i].from < nexts[j].from

C35_Witness ==
    /\ Len(nexts) = 3
    /\ nexts[1].err = "nil"
    /\ nexts[2].err = "EOF"
    /\ nexts[3].err = "EOF"
    /\ handles[1].out # <<>>

LoopConsumes ==
    (pc \in {"scripts", "subHeaders"} /\ pc' \in {"scripts", "subHeaders"})
        => Len(inner') > Len(inner)

\* C37: Parser.Parse and HeaderTar.Parse terminate: every turn of the scripts
\* loop and of the sub-header loop consumes an entry of the nested archive,
\* and Parse comes to an end, by success or by an error.
C37_ParseTerminates ==
    /\ [][LoopConsumes]_vars
    /\ <>Done

C37_Witness ==
    /\ pc = "optHeaderAugment"
    /\ Len(inner) = 4
    /\ ScriptCount(inner) = 1
    /\ TypeInfoCount(inner) = 2

\* the step in which ArtifactReader.Parse returns an error gives the caller
\* (nil, err) and leaves the reader as it was; the reader changes only in
\* the step in which Parse returns without error
FailedParseKeepsReader ==
    /\ (pc # "failed" /\ pc' = "failed")
           => /\ a' = a
              /\ IsNil(ret'.ar)
              /\ ret'.err \notin {"nil", "none"}
    /\ a' # a => (pc' = "parsed" /\ ret'.err = "nil")

\* C38: when Parser.Parse returns an error, ArtifactReader.Parse returns
\* (nil, error) and the reader's stored parser and Artifact stay as they
\* were; they are replaced only when parsing succeeded.
C38_FailedParseKeepsReader ==
    /\ [](pc = "failed" => (a = NewArtifactReader /\ IsNil(ret.ar)))
    /\ [][FailedParseKeepsReader]_vars

C38_Witness ==
    /\ pc = "failed"
    /\ Len(HeaderTarOf(artifact).headers) >= 1
    /\ a = NewArtifactReader
    /\ IsNil(ret.ar)
    /\ ret.err \notin {"nil", "none"}

============================================================================
